---- MODULE Spec2Model ----
(***************************************************************************)
(* Model of server.js: the JSON-file record store (loadJson / saveJson)    *)
(* and the REST handlers that load a collection, change the in-memory      *)
(* value and write it back.                                                *)
(*                                                                         *)
(* JavaScript values are tagged records [t, v]; a string is a TLA+ string, *)
(* an array a sequence, an object a function from keys to values.  A       *)
(* document on disk is absent, unparseable, or holds the JSON text that    *)
(* JSON.stringify produced (represented by its syntax tree).               *)
(***************************************************************************)
EXTENDS Integers, Sequences, FiniteSets, TLC

VARIABLES docs, now, req, resp, acked, call, ret

vars == <<docs, now, req, resp, acked, call, ret>>

----------------------------------------------------------------------------
(* Bounds of the model *)

\* total number of records (users, their courses and log entries, profiles,
\* videos, tests, results, questions) the store may hold
MaxRecords == 2

\* largest value of the millisecond clock
MaxClock == 1

----------------------------------------------------------------------------
(* JavaScript values *)

JUndef == [t |-> "undefined", v |-> 0]

JNull == [t |-> "null", v |-> 0]

JNaN == [t |-> "NaN", v |-> 0]

JNum(n) == [t |-> "number", v |-> n]

JStr(s) == [t |-> "string", v |-> s]

JArr(s) == [t |-> "array", v |-> s]

JObj(f) == [t |-> "object", v |-> f]

EmptyArr == JArr(<<>>)

EmptyObj == JObj(<<>>)

IsArr(x) == x.t = "array"

IsStr(x) == x.t = "string"

\* ToBoolean: undefined, null, NaN, 0 and "" are falsy
Truthy(x) ==
  CASE x.t \in {"undefined", "null", "NaN"} -> FALSE
    [] x.t = "number" -> x.v # 0
    [] x.t = "string" -> Len(x.v) > 0
    [] OTHER -> TRUE

\* a || b
OrElse(a, b) == IF Truthy(a) THEN a ELSE b

\* a === b ; two distinct objects or arrays are never identical
StrictEq(a, b) ==
  /\ a.t = b.t
  /\ CASE a.t \in {"undefined", "null"} -> TRUE
       [] a.t \in {"number", "string"} -> a.v = b.v
       [] OTHER -> FALSE

\* o[k] : a missing property reads as undefined
Get(o, k) == IF o.t = "object" /\ k \in DOMAIN o.v THEN o.v[k] ELSE JUndef

\* o[k] = x
ObjSet(o, k, x) == JObj((k :> x) @@ o.v)

\* a.length = i - 1; a.push(x): the elements after i are dropped
ArrSetTruncating(a, i, x) == JArr(SubSeq(a.v, 1, i - 1) \o <<x>>)

\* a[i] = x
ArrSet(a, i, x) == JArr([a.v EXCEPT ![i] = x])

\* a value holding x alone: what a request that did not see the records
\* written since its load would write back
PushOver(a, x) == JArr(<<x>>)

\* a.push(x)
Push(a, x) == JArr(Append(a.v, x))

\* a.unshift(x)
Unshift(a, x) == JArr(<<x>> \o a.v)

\* the numbers a numeric string of the model can denote
NumRange == 0 .. 100

\* Number(x)
ToNumber(x) ==
  CASE x.t = "number" -> x
    [] x.t = "null" -> JNum(0)
    [] x.t = "string" ->
         IF Len(x.v) = 0 THEN JNum(0)
         ELSE IF \E n \in NumRange : ToString(n) = x.v
              THEN JNum(CHOOSE n \in NumRange : ToString(n) = x.v)
              ELSE JNaN
    [] OTHER -> JNaN

\* a comparison that keeps the case of the address
toLowerCaseKept(s) == s

\* String.prototype.toLowerCase on the strings of the model
toLowerCase(s) ==
  CASE s = "A@X.com" -> "a@x.com"
    [] s = "B@X.com" -> "b@x.com"
    [] OTHER -> s

\* u.email.toLowerCase()
LowerEmail(u) == toLowerCase(Get(u, "email").v)

\* new Date().toISOString()
toISOString(ms) == "T" \o ToString(ms)

\* new Date(s) as a number of milliseconds
DateParse(s) ==
  IF s.t = "string" /\ \E n \in 0 .. MaxClock + 1 : toISOString(n) = s.v
  THEN CHOOSE n \in 0 .. MaxClock + 1 : toISOString(n) = s.v
  ELSE -1

----------------------------------------------------------------------------
(* JSON text: a document is the syntax tree of the text, with nodes [j, c] *)

NullNode == [j |-> "null", c |-> 0]

RECURSIVE JSONstringify(_)
\* JSON.stringify: NaN becomes null, an undefined array element becomes
\* null, a property whose value is undefined is omitted
JSONstringify(x) ==
  CASE x.t = "array" ->
         [j |-> "array",
          c |-> [i \in DOMAIN x.v |->
                   IF x.v[i].t = "undefined" THEN NullNode
                   ELSE JSONstringify(x.v[i])]]
    [] x.t = "object" ->
         [j |-> "object",
          c |-> [k \in {m \in DOMAIN x.v : x.v[m].t # "undefined"} |->
                   JSONstringify(x.v[k])]]
    [] x.t = "number" -> [j |-> "number", c |-> x.v]
    [] x.t = "string" -> [j |-> "string", c |-> x.v]
    [] OTHER -> NullNode

RECURSIVE JSONparse(_)
\* JSON.parse of a well-formed text: a fresh value, sharing nothing
JSONparse(node) ==
  CASE node.j = "array" -> JArr([i \in DOMAIN node.c |-> JSONparse(node.c[i])])
    [] node.j = "object" -> JObj([k \in DOMAIN node.c |-> JSONparse(node.c[k])])
    [] node.j = "number" -> JNum(node.c)
    [] node.j = "string" -> JStr(node.c)
    [] OTHER -> JNull

----------------------------------------------------------------------------
(* The files of DATA_DIR *)

Files == {"users.json", "profiles.json", "courseVideos.json",
          "tests.json", "testResults.json", "questions.json"}

Absent == [kind |-> "absent", text |-> NullNode]

\* a file whose content JSON.parse rejects
Corrupt == [kind |-> "corrupt", text |-> NullNode]

JsonDoc(text) == [kind |-> "json", text |-> text]

existsSync(fs, fileName) == fs[fileName].kind # "absent"

writeFileSync(fs, fileName, text) == [fs EXCEPT ![fileName] = JsonDoc(text)]

\* a load that creates the missing document from the fallback
loadJsonCreate(fs, fileName, fallback) ==
  IF ~existsSync(fs, fileName)
  THEN [ret |-> fallback, fs |-> writeFileSync(fs, fileName, JSONstringify(fallback))]
  ELSE IF fs[fileName].kind = "json"
       THEN [ret |-> JSONparse(fs[fileName].text), fs |-> fs]
       ELSE [ret |-> fallback, fs |-> fs]

\* a load whose catch returns nothing
loadJsonNoCatch(fs, fileName, fallback) ==
  IF ~existsSync(fs, fileName) THEN [ret |-> fallback, fs |-> fs]
  ELSE IF fs[fileName].kind = "json"
       THEN [ret |-> JSONparse(fs[fileName].text), fs |-> fs]
       ELSE [ret |-> JUndef, fs |-> fs]

loadJson(fs, fileName, fallback) ==
  IF ~existsSync(fs, fileName) THEN [ret |-> fallback, fs |-> fs]
  ELSE IF fs[fileName].kind = "json"
       THEN [ret |-> JSONparse(fs[fileName].text), fs |-> fs]
       ELSE [ret |-> fallback, fs |-> fs]

\* a save that keeps a document that already exists
saveJsonOnce(fs, fileName, value) ==
  IF existsSync(fs, fileName) THEN fs
  ELSE writeFileSync(fs, fileName, JSONstringify(value))

saveJson(fs, fileName, value) ==
  writeFileSync(fs, fileName, JSONstringify(value))

----------------------------------------------------------------------------
(* Replies *)

Out(status, body, fs) == [status |-> status, body |-> JSONstringify(body), fs |-> fs]

Msg(m) == JObj([message |-> JStr(m)])

\* an exception thrown by a handler: the framework answers 500, nothing is saved
Throw(fs) == Out(500, Msg("Internal Server Error"), fs)

\* users.findIndex(u => u.email.toLowerCase() === email) ; 0 when none
FindUser(users, emailLower) ==
  IF \E i \in DOMAIN users.v : LowerEmail(users.v[i]) = emailLower
  THEN CHOOSE i \in DOMAIN users.v :
         /\ LowerEmail(users.v[i]) = emailLower
         /\ \A j \in 1 .. i - 1 : LowerEmail(users.v[j]) # emailLower
  ELSE 0

\* a scan that compares the entry itself, not its name, with the name
FindCourseByEntry(courses, name) ==
  IF \E i \in DOMAIN courses.v : StrictEq(courses.v[i], name)
  THEN CHOOSE i \in DOMAIN courses.v : StrictEq(courses.v[i], name)
  ELSE 0

\* courses.findIndex(c => c.name === name) ; 0 when none
FindCourse(courses, name) ==
  IF \E i \in DOMAIN courses.v : StrictEq(Get(courses.v[i], "name"), name)
  THEN CHOOSE i \in DOMAIN courses.v :
         /\ StrictEq(Get(courses.v[i], "name"), name)
         /\ \A j \in 1 .. i - 1 : ~StrictEq(Get(courses.v[j], "name"), name)
  ELSE 0

\* list.filter(r => r.course === course)
FilterCourse(list, course) ==
  JArr(SelectSeq(list.v, LAMBDA r : StrictEq(Get(r, "course"), course)))

----------------------------------------------------------------------------
(* Handlers.  Each takes the files, the clock and the request, and returns *)
(* the reply with the files as the handler leaves them.                    *)

\* POST /api/auth/signup
PostSignup(fs, t, rq) ==
  LET name == Get(rq.body, "name")
      email == Get(rq.body, "email")
      phone == Get(rq.body, "phone")
      password == Get(rq.body, "password")
      role == Get(rq.body, "role")
      courseType == Get(rq.body, "courseType")
  IN IF ~Truthy(name) \/ ~Truthy(email) \/ ~Truthy(phone)
        \/ ~Truthy(password) \/ ~Truthy(role)
     THEN Out(400, Msg("Missing required fields"), fs)
     ELSE
       LET ld == loadJson(fs, "users.json", EmptyArr)
           users == ld.ret
       IN IF ~IsArr(users) \/ (Len(users.v) > 0 /\ ~IsStr(email)) THEN Throw(ld.fs)
          ELSE IF FindUser(users, toLowerCase(email.v)) # 0
          THEN Out(409, Msg("Email already registered"), ld.fs)
          ELSE
            LET newUser ==
                  JObj([name |-> name,
                        email |-> email,
                        phone |-> phone,
                        password |-> password,
                        role |-> role,
                        courseType |-> IF StrictEq(role, JStr("student"))
                                       THEN OrElse(courseType, JNull)
                                       ELSE JNull,
                        status |-> JStr("pending"),
                        createdAt |-> JStr(toISOString(t)),
                        courses |-> EmptyArr,
                        projectLog |-> EmptyArr,
                        profile |-> EmptyObj])
            IN Out(201,
                   JObj([message |-> JStr("Signup successful (pending approval)"),
                         user |-> newUser]),
                   saveJson(ld.fs, "users.json", Push(users, newUser)))

\* a login scan that compares the address as typed with the one stored
FindLoginExact(users, email, password, role) ==
  LET match(u) == /\ StrictEq(Get(u, "email"), email)
                  /\ StrictEq(Get(u, "password"), password)
                  /\ StrictEq(OrElse(Get(u, "role"), JStr("student")), role)
  IN IF \E i \in DOMAIN users.v : match(users.v[i])
     THEN CHOOSE i \in DOMAIN users.v :
            match(users.v[i]) /\ \A k \in 1 .. i - 1 : ~match(users.v[k])
     ELSE 0

\* the user a login matches: users.find(...) ; 0 when none
FindLogin(users, email, password, role) ==
  LET match(u) == /\ LowerEmail(u) = toLowerCase(email.v)
                  /\ StrictEq(Get(u, "password"), password)
                  /\ StrictEq(OrElse(Get(u, "role"), JStr("student")), role)
  IN IF \E i \in DOMAIN users.v : match(users.v[i])
     THEN CHOOSE i \in DOMAIN users.v :
            match(users.v[i]) /\ \A k \in 1 .. i - 1 : ~match(users.v[k])
     ELSE 0

\* POST /api/auth/login
PostLogin(fs, t, rq) ==
  LET email == Get(rq.body, "email")
      password == Get(rq.body, "password")
      role == Get(rq.body, "role")
  IN IF ~Truthy(email) \/ ~Truthy(password) \/ ~Truthy(role)
     THEN Out(400, Msg("Missing email/password/role"), fs)
     ELSE
       LET ld == loadJson(fs, "users.json", EmptyArr)
           users == ld.ret
       IN IF ~IsArr(users) \/ (Len(users.v) > 0 /\ ~IsStr(email)) THEN Throw(ld.fs)
          ELSE
            LET idx == FindLogin(users, email, password, role)
            IN IF idx = 0 THEN Out(401, Msg("Invalid credentials"), ld.fs)
               ELSE
                 LET user == users.v[idx]
                 IN IF StrictEq(Get(user, "status"), JStr("pending"))
                    THEN Out(403, Msg("Account pending admin approval"), ld.fs)
                    ELSE IF StrictEq(Get(user, "status"), JStr("rejected"))
                    THEN Out(403, Msg("Account rejected"), ld.fs)
                    ELSE Out(200,
                             JObj([message |-> JStr("Login successful"),
                                   user |-> JObj([name |-> Get(user, "name"),
                                                  email |-> Get(user, "email"),
                                                  role |-> Get(user, "role"),
                                                  status |-> Get(user, "status"),
                                                  courseType |-> Get(user, "courseType")])]),
                             ld.fs)

\* a listing that writes back what it read
GetAdminUsersSaving(fs, t, rq) ==
  LET ld == loadJson(fs, "users.json", EmptyArr)
  IN Out(200, ld.ret, saveJson(ld.fs, "users.json", ld.ret))

\* GET /api/admin/users
GetAdminUsers(fs, t, rq) ==
  LET ld == loadJson(fs, "users.json", EmptyArr)
  IN Out(200, ld.ret, ld.fs)

\* PATCH /api/admin/users/:email/status
PatchUserStatus(fs, t, rq) ==
  LET status == Get(rq.body, "status")
  IN IF ~\E s \in {"pending", "approved", "rejected"} : StrictEq(status, JStr(s))
     THEN Out(400, Msg("Invalid status"), fs)
     ELSE
       LET ld == loadJson(fs, "users.json", EmptyArr)
           users == ld.ret
       IN IF ~IsArr(users) THEN Throw(ld.fs)
          ELSE
            LET idx == FindUser(users, toLowerCase(rq.email))
            IN IF idx = 0 THEN Out(404, Msg("User not found"), ld.fs)
               ELSE
                 LET users2 == ArrSet(users, idx, ObjSet(users.v[idx], "status", status))
                 IN Out(200,
                        JObj([message |-> JStr("Status updated"),
                              user |-> users2.v[idx]]),
                        saveJson(ld.fs, "users.json", users2))

\* GET /api/students/:email/profile
GetProfile(fs, t, rq) ==
  LET key == toLowerCase(rq.email)
      ld == loadJson(fs, "profiles.json", EmptyObj)
  IN Out(200, OrElse(Get(ld.ret, key), JNull), ld.fs)

\* PUT /api/students/:email/profile
PutProfile(fs, t, rq) ==
  LET email == rq.email
      key == toLowerCase(email)
      ld == loadJson(fs, "profiles.json", EmptyObj)
      profiles == ld.ret
      merged == JObj([email |-> JStr(email), updatedAt |-> JStr(toISOString(t))]
                     @@ rq.body.v
                     @@ OrElse(Get(profiles, key), EmptyObj).v)
      profiles2 == ObjSet(profiles, key, merged)
  IN Out(200,
         JObj([message |-> JStr("Profile saved"), profile |-> merged]),
         saveJson(ld.fs, "profiles.json", profiles2))

\* GET /api/students/:email/dashboard
GetDashboard(fs, t, rq) ==
  LET email == toLowerCase(rq.email)
      ld == loadJson(fs, "users.json", EmptyArr)
      users == ld.ret
  IN IF ~IsArr(users) THEN Throw(ld.fs)
     ELSE
       LET idx == FindUser(users, email)
       IN IF idx = 0 THEN Out(404, Msg("Student not found"), ld.fs)
          ELSE Out(200,
                   JObj([courses |-> OrElse(Get(users.v[idx], "courses"), EmptyArr),
                         projectLog |-> OrElse(Get(users.v[idx], "projectLog"), EmptyArr)]),
                   ld.fs)

\* POST /api/students/:email/courses
PostCourse(fs, t, rq) ==
  LET email == toLowerCase(rq.email)
      name == Get(rq.body, "name")
  IN IF ~Truthy(name) THEN Out(400, Msg("Course name required"), fs)
     ELSE
       LET ld == loadJson(fs, "users.json", EmptyArr)
           users == ld.ret
       IN IF ~IsArr(users) THEN Throw(ld.fs)
          ELSE
            LET idx == FindUser(users, email)
            IN IF idx = 0 THEN Out(404, Msg("Student not found"), ld.fs)
               ELSE
                 LET me == ObjSet(users.v[idx], "courses",
                                  OrElse(Get(users.v[idx], "courses"), EmptyArr))
                 IN IF FindCourse(Get(me, "courses"), name) # 0
                    THEN Out(409, Msg("Course already added"), ld.fs)
                    ELSE
                      LET courses2 == Push(Get(me, "courses"),
                                           JObj([name |-> name, progress |-> JNum(0)]))
                          users2 == ArrSet(users, idx, ObjSet(me, "courses", courses2))
                      IN Out(201,
                             JObj([message |-> JStr("Course added"),
                                   courses |-> courses2]),
                             saveJson(ld.fs, "users.json", users2))

\* PATCH /api/students/:email/courses
PatchCourse(fs, t, rq) ==
  LET email == toLowerCase(rq.email)
      name == Get(rq.body, "name")
      progress == Get(rq.body, "progress")
  IN IF ~Truthy(name) THEN Out(400, Msg("Course name required"), fs)
     ELSE
       LET ld == loadJson(fs, "users.json", EmptyArr)
           users == ld.ret
       IN IF ~IsArr(users) THEN Throw(ld.fs)
          ELSE
            LET idx == FindUser(users, email)
            IN IF idx = 0 THEN Out(404, Msg("Student not found"), ld.fs)
               ELSE
                 LET me == ObjSet(users.v[idx], "courses",
                                  OrElse(Get(users.v[idx], "courses"), EmptyArr))
                     cIdx == FindCourse(Get(me, "courses"), name)
                 IN IF cIdx = 0
                    THEN Out(404, Msg("Course not found for student"), ld.fs)
                    ELSE
                      LET course2 == ObjSet(Get(me, "courses").v[cIdx], "progress",
                                            ToNumber(OrElse(progress, JNum(0))))
                          courses2 == ArrSet(Get(me, "courses"), cIdx, course2)
                          users2 == ArrSet(users, idx, ObjSet(me, "courses", courses2))
                      IN Out(200,
                             JObj([message |-> JStr("Progress updated"),
                                   course |-> course2]),
                             saveJson(ld.fs, "users.json", users2))

\* new Date().toLocaleString()
toLocaleString(ms) == "L" \o ToString(ms)

\* POST /api/students/:email/project-log
PostProjectLog(fs, t, rq) ==
  LET email == toLowerCase(rq.email)
      text == Get(rq.body, "text")
  IN IF ~Truthy(text) THEN Out(400, Msg("Text required"), fs)
     ELSE
       LET ld == loadJson(fs, "users.json", EmptyArr)
           users == ld.ret
       IN IF ~IsArr(users) THEN Throw(ld.fs)
          ELSE
            LET idx == FindUser(users, email)
            IN IF idx = 0 THEN Out(404, Msg("Student not found"), ld.fs)
               ELSE
                 LET me == ObjSet(users.v[idx], "projectLog",
                                  OrElse(Get(users.v[idx], "projectLog"), EmptyArr))
                     entry == JObj([text |-> text, time |-> JStr(toLocaleString(t))])
                     log2 == Unshift(Get(me, "projectLog"), entry)
                     users2 == ArrSet(users, idx, ObjSet(me, "projectLog", log2))
                 IN Out(201,
                        JObj([message |-> JStr("Project update added"), log |-> log2]),
                        saveJson(ld.fs, "users.json", users2))

\* GET /api/videos
GetVideos(fs, t, rq) ==
  LET ld == loadJson(fs, "courseVideos.json", EmptyArr)
      videos == ld.ret
  IN IF Truthy(rq.course)
     THEN IF ~IsArr(videos) THEN Throw(ld.fs)
          ELSE Out(200, FilterCourse(videos, rq.course), ld.fs)
     ELSE Out(200, videos, ld.fs)

\* POST /api/videos
PostVideo(fs, t, rq) ==
  LET course == Get(rq.body, "course")
      title == Get(rq.body, "title")
      description == Get(rq.body, "description")
      src == Get(rq.body, "src")
      duration == Get(rq.body, "duration")
  IN IF ~Truthy(course) \/ ~Truthy(title) \/ ~Truthy(src)
     THEN Out(400, Msg("course, title and src are required"), fs)
     ELSE
       LET ld == loadJson(fs, "courseVideos.json", EmptyArr)
           videos == ld.ret
           video == JObj([id |-> JStr("v_" \o ToString(t)),
                          course |-> course,
                          title |-> title,
                          description |-> OrElse(description, JStr("")),
                          src |-> src,
                          duration |-> OrElse(duration, JNull)])
       IN IF ~IsArr(videos) THEN Throw(ld.fs)
          ELSE Out(201,
                   JObj([message |-> JStr("Video added"), video |-> video]),
                   saveJson(ld.fs, "courseVideos.json", Push(videos, video)))

\* GET /api/tests
GetTests(fs, t, rq) ==
  LET ld == loadJson(fs, "tests.json", EmptyArr)
      tests == ld.ret
  IN IF Truthy(rq.course)
     THEN IF ~IsArr(tests) THEN Throw(ld.fs)
          ELSE Out(200, FilterCourse(tests, rq.course), ld.fs)
     ELSE Out(200, tests, ld.fs)

\* POST /api/tests
PostTest(fs, t, rq) ==
  LET course == Get(rq.body, "course")
      question == Get(rq.body, "question")
      options == Get(rq.body, "options")
  IN IF ~Truthy(course) \/ ~Truthy(question) \/ ~Truthy(options)
        \/ ~IsArr(options) \/ Len(options.v) < 2
     THEN Out(400, Msg("course, question, options[>=2] required"), fs)
     ELSE
       LET ld == loadJson(fs, "tests.json", EmptyArr)
           tests == ld.ret
           test == JObj([id |-> JStr("t_" \o ToString(t)),
                         course |-> course,
                         question |-> question,
                         options |-> options,
                         correctIndex |-> JNum(0)])
       IN IF ~IsArr(tests) THEN Throw(ld.fs)
          ELSE Out(201,
                   JObj([message |-> JStr("Test question added"), test |-> test]),
                   saveJson(ld.fs, "tests.json", Push(tests, test)))

\* POST /api/tests/submit
PostTestSubmit(fs, t, rq) ==
  LET studentEmail == Get(rq.body, "studentEmail")
      studentName == Get(rq.body, "studentName")
      course == Get(rq.body, "course")
      score == Get(rq.body, "score")
      total == Get(rq.body, "total")
  IN IF ~Truthy(studentEmail) \/ ~Truthy(course)
        \/ score.t = "undefined" \/ total.t = "undefined"
     THEN Out(400, Msg("studentEmail, course, score, total required"), fs)
     ELSE
       LET ld == loadJson(fs, "testResults.json", EmptyArr)
           results == ld.ret
           entry == JObj([studentEmail |-> studentEmail,
                          studentName |-> OrElse(studentName, JNull),
                          course |-> course,
                          score |-> ToNumber(score),
                          total |-> ToNumber(total),
                          submittedAt |-> JStr(toISOString(t))])
       IN IF ~IsArr(results) THEN Throw(ld.fs)
          ELSE Out(201,
                   JObj([message |-> JStr("Result recorded"), result |-> entry]),
                   saveJson(ld.fs, "testResults.json", Push(results, entry)))

\* GET /api/tests/results
GetTestResults(fs, t, rq) ==
  LET ld == loadJson(fs, "testResults.json", EmptyArr)
      results == ld.ret
  IN IF Truthy(rq.course)
     THEN IF ~IsArr(results) THEN Throw(ld.fs)
          ELSE Out(200, FilterCourse(results, rq.course), ld.fs)
     ELSE Out(200, results, ld.fs)

\* POST /api/questions
PostQuestion(fs, t, rq) ==
  LET course == Get(rq.body, "course")
      videoId == Get(rq.body, "videoId")
      videoTitle == Get(rq.body, "videoTitle")
      studentName == Get(rq.body, "studentName")
      studentPhone == Get(rq.body, "studentPhone")
      studentEmail == Get(rq.body, "studentEmail")
      question == Get(rq.body, "question")
      timeText == Get(rq.body, "timeText")
  IN IF ~Truthy(course) \/ ~Truthy(videoId) \/ ~Truthy(question)
        \/ ~Truthy(studentEmail)
     THEN Out(400, Msg("course, videoId, question, studentEmail required"), fs)
     ELSE
       LET ld == loadJson(fs, "questions.json", EmptyArr)
           questions == ld.ret
           item == JObj([id |-> JStr("q_" \o ToString(t)),
                         course |-> course,
                         videoId |-> videoId,
                         videoTitle |-> OrElse(videoTitle, JNull),
                         studentName |-> OrElse(studentName, JNull),
                         studentPhone |-> OrElse(studentPhone, JNull),
                         studentEmail |-> studentEmail,
                         question |-> question,
                         timeText |-> OrElse(timeText, JNull),
                         createdAt |-> JStr(toISOString(t))])
       IN IF ~IsArr(questions) THEN Throw(ld.fs)
          ELSE Out(201,
                   JObj([message |-> JStr("Question recorded"), question |-> item]),
                   saveJson(ld.fs, "questions.json", Push(questions, item)))

\* the comparator with its operands exchanged
OldestFirst(a, b) == DateParse(Get(a, "createdAt")) - DateParse(Get(b, "createdAt"))

\* the comparator (a, b) => new Date(b.createdAt) - new Date(a.createdAt)
NewestFirst(a, b) == DateParse(Get(b, "createdAt")) - DateParse(Get(a, "createdAt"))

\* x placed after the last element it does not have to precede
SortInsert(sorted, x) ==
  LET keep == {i \in 0 .. Len(sorted) :
                 \A k \in 1 .. i : NewestFirst(sorted[k], x) <= 0}
      pos == CHOOSE i \in keep : \A k \in keep : k <= i
  IN SubSeq(sorted, 1, pos) \o <<x>> \o SubSeq(sorted, pos + 1, Len(sorted))

RECURSIVE ArraySort(_)
\* Array.prototype.sort with the comparator: a stable sort
ArraySort(list) ==
  IF Len(list) = 0 THEN <<>>
  ELSE SortInsert(ArraySort(SubSeq(list, 1, Len(list) - 1)), list[Len(list)])

\* GET /api/questions
GetQuestions(fs, t, rq) ==
  LET ld == loadJson(fs, "questions.json", EmptyArr)
      questions == ld.ret
  IN IF ~IsArr(questions) THEN Throw(ld.fs)
     ELSE
       LET list == IF Truthy(rq.course) THEN FilterCourse(questions, rq.course)
                   ELSE questions
       IN Out(200, JArr(ArraySort(list.v)), ld.fs)

----------------------------------------------------------------------------
(* Collections as the handlers see them *)

Fallback(fileName) == IF fileName = "profiles.json" THEN EmptyObj ELSE EmptyArr

Coll(fs, fileName) == loadJson(fs, fileName, Fallback(fileName)).ret

Size(x) == IF IsArr(x) THEN Len(x.v) ELSE Cardinality(DOMAIN x.v)

RECURSIVE Nested(_)
\* the courses and log entries embedded in a sequence of users
Nested(us) ==
  IF Len(us) = 0 THEN 0
  ELSE Size(OrElse(Get(us[1], "courses"), EmptyArr))
       + Size(OrElse(Get(us[1], "projectLog"), EmptyArr))
       + Nested(Tail(us))

TotalRecords(fs) ==
  Size(Coll(fs, "users.json")) + Nested(Coll(fs, "users.json").v)
  + Size(Coll(fs, "profiles.json")) + Size(Coll(fs, "courseVideos.json"))
  + Size(Coll(fs, "tests.json")) + Size(Coll(fs, "testResults.json"))
  + Size(Coll(fs, "questions.json"))

----------------------------------------------------------------------------
(* Requests *)

\* express.json(): the parsed body holds the properties that were sent
Body(f) == JObj([k \in {m \in DOMAIN f : f[m].t # "undefined"} |-> f[k]])

Rq(email, course, body) == [email |-> email, course |-> course, body |-> body]

Emails == {"a@x.com", "A@X.com", "b@x.com"}

\* the :email path parameter
ParamEmails == {"A@X.com", "b@x.com"}

Roles == {"student", "teacher"}

CourseNames == {"Math", "Art"}

Subjects == {"CS101", "CS102"}

SignupBody(e, r, ct) ==
  Body([name |-> JStr("N"), email |-> e, phone |-> JStr("1"),
        password |-> JStr("pw1"), role |-> JStr(r), courseType |-> ct])

SignupBodies ==
  {SignupBody(JStr("a@x.com"), "student", JUndef),
   SignupBody(JStr("A@X.com"), "student", JStr("web")),
   SignupBody(JStr("b@x.com"), "teacher", JStr("web")),
   SignupBody(JUndef, "student", JUndef)}

LoginBody(e, p, r) == Body([email |-> JStr(e), password |-> JStr(p), role |-> r])

LoginBodies ==
  {LoginBody(e, "pw1", JStr("student")) : e \in Emails}
  \cup {LoginBody("B@X.com", "pw1", JStr("teacher")),
        LoginBody("a@x.com", "pw2", JStr("student")),
        LoginBody("a@x.com", "pw1", JStr("teacher")),
        LoginBody("b@x.com", "pw1", JUndef)}

StatusBodies ==
  {Body([status |-> st]) :
     st \in {JStr("pending"), JStr("approved"), JStr("rejected"), JStr("banned")}}

ProfileBodies ==
  {Body([bio |-> JStr("x")]), Body([email |-> JStr("z@z.com"), bio |-> JStr("y")])}

CourseBodies == {Body([name |-> n]) : n \in {JStr(c) : c \in CourseNames} \cup {JUndef}}

ProgressInputs == {JUndef, JNum(0), JNum(75), JStr("75"), JStr("abc")}

ProgressBodies ==
  {Body([name |-> JStr("Math"), progress |-> p]) : p \in ProgressInputs}
  \cup {Body([name |-> JStr("Art"), progress |-> JNum(75)]),
        Body([progress |-> JNum(75)])}

LogBodies == {Body([text |-> x]) : x \in {JStr("did it"), JUndef}}

CourseQueries == {JStr(c) : c \in Subjects} \cup {JUndef}

VideoBodies ==
  {Body([course |-> JStr("CS101"), title |-> JStr("T"),
         src |-> JStr("/uploads/videos/1_a.mp4"), duration |-> JStr("10:00")]),
   Body([course |-> JStr("CS102"), title |-> JStr("T"),
         src |-> JStr("/uploads/videos/1_a.mp4")]),
   Body([course |-> JStr("CS102"), title |-> JStr("T")])}

TestBodies ==
  {Body([course |-> JStr("CS101"), question |-> JStr("Q"), options |-> o]) :
     o \in {JArr(<<JStr("a"), JStr("b")>>), JArr(<<JStr("a")>>), JUndef}}

SubmitBodies ==
  {Body([studentEmail |-> JStr("a@x.com"), course |-> JStr("CS101"),
         score |-> sc, total |-> JNum(2)]) :
     sc \in {JNum(1), JStr("n/a"), JUndef}}

QuestionBodies ==
  {Body([course |-> JStr(c), videoId |-> JStr("v_0"), question |-> q,
         studentEmail |-> JStr("a@x.com")]) :
     c \in Subjects, q \in {JStr("why?"), JStr("how?"), JUndef}}

----------------------------------------------------------------------------
(* Routing *)

SignupReqs == {Rq("", JUndef, b) : b \in SignupBodies}

LoginReqs == {Rq("", JUndef, b) : b \in LoginBodies}

StatusReqs == {Rq(e, JUndef, b) : e \in ParamEmails, b \in StatusBodies}

ParamReqs == {Rq(e, JUndef, EmptyObj) : e \in ParamEmails}

ProfileReqs == {Rq(e, JUndef, b) : e \in ParamEmails, b \in ProfileBodies}

CourseReqs == {Rq(e, JUndef, b) : e \in ParamEmails, b \in CourseBodies}

ProgressReqs == {Rq(e, JUndef, b) : e \in ParamEmails, b \in ProgressBodies}

LogReqs == {Rq(e, JUndef, b) : e \in ParamEmails, b \in LogBodies}

QueryReqs == {Rq("", c, EmptyObj) : c \in CourseQueries}

VideoReqs == {Rq("", JUndef, b) : b \in VideoBodies}

TestReqs == {Rq("", JUndef, b) : b \in TestBodies}

SubmitReqs == {Rq("", JUndef, b) : b \in SubmitBodies}

QuestionReqs == {Rq("", JUndef, b) : b \in QuestionBodies}

\* the routes registered on app, each with its handler
Handle(fs, t, op, rq) ==
  CASE op = "POST /api/auth/signup" -> PostSignup(fs, t, rq)
    [] op = "POST /api/auth/login" -> PostLogin(fs, t, rq)
    [] op = "GET /api/admin/users" -> GetAdminUsers(fs, t, rq)
    [] op = "PATCH /api/admin/users/:email/status" -> PatchUserStatus(fs, t, rq)
    [] op = "GET /api/students/:email/profile" -> GetProfile(fs, t, rq)
    [] op = "PUT /api/students/:email/profile" -> PutProfile(fs, t, rq)
    [] op = "GET /api/students/:email/dashboard" -> GetDashboard(fs, t, rq)
    [] op = "POST /api/students/:email/courses" -> PostCourse(fs, t, rq)
    [] op = "PATCH /api/students/:email/courses" -> PatchCourse(fs, t, rq)
    [] op = "POST /api/students/:email/project-log" -> PostProjectLog(fs, t, rq)
    [] op = "GET /api/videos" -> GetVideos(fs, t, rq)
    [] op = "POST /api/videos" -> PostVideo(fs, t, rq)
    [] op = "GET /api/tests" -> GetTests(fs, t, rq)
    [] op = "POST /api/tests" -> PostTest(fs, t, rq)
    [] op = "POST /api/tests/submit" -> PostTestSubmit(fs, t, rq)
    [] op = "GET /api/tests/results" -> GetTestResults(fs, t, rq)
    [] op = "POST /api/questions" -> PostQuestion(fs, t, rq)
    [] op = "GET /api/questions" -> GetQuestions(fs, t, rq)

\* the requests of the model, by route
RequestsOf(op) ==
  CASE op = "POST /api/auth/signup" -> SignupReqs
    [] op = "POST /api/auth/login" -> LoginReqs
    [] op = "GET /api/admin/users" -> {Rq("", JUndef, EmptyObj)}
    [] op = "PATCH /api/admin/users/:email/status" -> StatusReqs
    [] op = "GET /api/students/:email/profile" -> ParamReqs
    [] op = "PUT /api/students/:email/profile" -> ProfileReqs
    [] op = "GET /api/students/:email/dashboard" -> ParamReqs
    [] op = "POST /api/students/:email/courses" -> CourseReqs
    [] op = "PATCH /api/students/:email/courses" -> ProgressReqs
    [] op = "POST /api/students/:email/project-log" -> LogReqs
    [] op = "GET /api/videos" -> QueryReqs
    [] op = "POST /api/videos" -> VideoReqs
    [] op = "GET /api/tests" -> QueryReqs
    [] op = "POST /api/tests" -> TestReqs
    [] op = "POST /api/tests/submit" -> SubmitReqs
    [] op = "GET /api/tests/results" -> QueryReqs
    [] op = "POST /api/questions" -> QuestionReqs
    [] op = "GET /api/questions" -> QueryReqs

UserRoutes ==
  {"POST /api/auth/signup", "POST /api/auth/login", "GET /api/admin/users",
   "PATCH /api/admin/users/:email/status", "GET /api/students/:email/dashboard",
   "POST /api/students/:email/courses", "PATCH /api/students/:email/courses",
   "POST /api/students/:email/project-log"}

ContentRoutes ==
  {"GET /api/students/:email/profile", "PUT /api/students/:email/profile",
   "GET /api/videos", "POST /api/videos", "GET /api/tests", "POST /api/tests",
   "POST /api/tests/submit", "GET /api/tests/results",
   "POST /api/questions", "GET /api/questions"}

Routes == UserRoutes \cup ContentRoutes

\* the collection a route appends a record to when it answers 201
CreatedFile(op) ==
  CASE op = "POST /api/auth/signup" -> "users.json"
    [] op = "POST /api/videos" -> "courseVideos.json"
    [] op = "POST /api/tests" -> "tests.json"
    [] op = "POST /api/tests/submit" -> "testResults.json"
    [] op = "POST /api/questions" -> "questions.json"
    [] OTHER -> ""

----------------------------------------------------------------------------
(* The server: one action per route.  A handler has no await and no       *)
(* callback between loadJson and saveJson (readFileSync, writeFileSync),  *)
(* so it runs to completion: one step per request, in any order.          *)

\* req records the route and the e-mail address of the request handled last
NoReq == [op |-> "none", email |-> ""]

NoResp == [status |-> 0, body |-> NullNode]

NoCall == [fn |-> "none", fileName |-> "", arg |-> JUndef]

\* the e-mail address a request names: its path parameter, else body.email
ReqEmail(rq) ==
  IF rq.email # "" THEN rq.email
  ELSE IF IsStr(Get(rq.body, "email")) THEN Get(rq.body, "email").v
  ELSE ""

Init ==
  /\ docs = [f \in Files |-> Absent]
  /\ now = 0
  /\ req = NoReq
  /\ resp = NoResp
  /\ acked = [f \in Files |-> 0]
  /\ call = NoCall
  /\ ret = JUndef

\* the data directory with every document left unparseable (a crash during
\* a write, a hand edit)
InitDegraded ==
  /\ docs = [f \in Files |-> Corrupt]
  /\ now = 0
  /\ req = NoReq
  /\ resp = NoResp
  /\ acked = [f \in Files |-> 0]
  /\ call = NoCall
  /\ ret = JUndef

\* acked counts, per collection, the creations answered 201
Step(op, rq, out) ==
  \E o \in {out} :
    /\ IF o.fs = docs THEN TRUE ELSE TotalRecords(o.fs) <= MaxRecords
    /\ docs' = o.fs
    /\ req' = [op |-> op, email |-> ReqEmail(rq)]
    /\ resp' = [status |-> o.status, body |-> o.body]
    /\ acked' = IF o.status = 201 /\ CreatedFile(op) # ""
                THEN [acked EXCEPT ![CreatedFile(op)] = @ + 1]
                ELSE acked
    /\ UNCHANGED <<now, call, ret>>

Route(op) == \E rq \in RequestsOf(op) : Step(op, rq, Handle(docs, now, op, rq))

\* Date.now() advances
Tick ==
  /\ now < MaxClock
  /\ now' = now + 1
  /\ UNCHANGED <<docs, req, resp, acked, call, ret>>

Signup == Route("POST /api/auth/signup")

Login == Route("POST /api/auth/login")

AdminUsers == Route("GET /api/admin/users")

UserStatus == Route("PATCH /api/admin/users/:email/status")

ProfileGet == Route("GET /api/students/:email/profile")

ProfilePut == Route("PUT /api/students/:email/profile")

Dashboard == Route("GET /api/students/:email/dashboard")

CourseAdd == Route("POST /api/students/:email/courses")

CourseProgress == Route("PATCH /api/students/:email/courses")

ProjectLog == Route("POST /api/students/:email/project-log")

VideosGet == Route("GET /api/videos")

VideoAdd == Route("POST /api/videos")

TestsGet == Route("GET /api/tests")

TestAdd == Route("POST /api/tests")

TestSubmit == Route("POST /api/tests/submit")

ResultsGet == Route("GET /api/tests/results")

QuestionAdd == Route("POST /api/questions")

QuestionsGet == Route("GET /api/questions")

\* the routes over users.json; their timestamps are written and never read
NextUsers ==
  \/ Signup
  \/ Login
  \/ AdminUsers
  \/ UserStatus
  \/ Dashboard
  \/ CourseAdd
  \/ CourseProgress
  \/ ProjectLog

\* the routes over the other collections
NextContent ==
  \/ ProfileGet
  \/ ProfilePut
  \/ VideosGet
  \/ VideoAdd
  \/ TestsGet
  \/ TestAdd
  \/ TestSubmit
  \/ ResultsGet
  \/ QuestionAdd
  \/ QuestionsGet

\* the routes over questions.json, and the clock that stamps the questions
NextQuestions ==
  \/ Tick
  \/ QuestionAdd
  \/ QuestionsGet

\* every route; the clock advances under SpecQuestions, whose route reads
\* the time stamps
Next == NextUsers \/ NextContent

Spec == Init /\ [][Next]_vars

SpecUsers == Init /\ [][NextUsers]_vars

SpecQuestions == Init /\ [][NextQuestions]_vars

SpecDegraded == InitDegraded /\ [][Next]_vars

----------------------------------------------------------------------------
(* The record store on its own: loadJson and saveJson called with any     *)
(* value, on documents in any condition.                                   *)

StoreFiles == {"users.json", "profiles.json"}

\* in-memory values handed to saveJson; the last three are not JSON values
StoreValues ==
  {EmptyArr, EmptyObj, JNull, JNum(7), JStr("text"),
   JArr(<<JObj([name |-> JStr("Math"), progress |-> JNum(75)])>>),
   JObj([k |-> JArr(<<JStr("x"), JNull>>)]),
   JArr(<<JNaN>>), JObj([k |-> JUndef]), JArr(<<JUndef, JNum(1)>>)}

Fallbacks == {EmptyArr, EmptyObj, JNull, JStr("fallback")}

StoreDocs == {Absent, Corrupt}

InitStore ==
  /\ \E d1 \in StoreDocs, d2 \in StoreDocs :
       docs = [f \in Files |-> IF f = "users.json" THEN d1
                               ELSE IF f = "profiles.json" THEN d2
                               ELSE Absent]
  /\ now = 0
  /\ req = NoReq
  /\ resp = NoResp
  /\ acked = [f \in Files |-> 0]
  /\ call = NoCall
  /\ ret = JUndef

StoreLoad ==
  \E f \in StoreFiles, fb \in Fallbacks :
    \E ld \in {loadJson(docs, f, fb)} :
      /\ call' = [fn |-> "loadJson", fileName |-> f, arg |-> fb]
      /\ ret' = ld.ret
      /\ docs' = ld.fs
      /\ UNCHANGED <<now, req, resp, acked>>

StoreSave ==
  \E f \in StoreFiles, x \in StoreValues :
    /\ call' = [fn |-> "saveJson", fileName |-> f, arg |-> x]
    /\ ret' = JUndef
    /\ docs' = saveJson(docs, f, x)
    /\ UNCHANGED <<now, req, resp, acked>>

NextStore == StoreLoad \/ StoreSave

SpecStore == InitStore /\ [][NextStore]_vars

----------------------------------------------------------------------------
(* Properties of the account routes, checked under SpecUsers *)

\* the stored users
Users == Coll(docs, "users.json").v

\* equality of two addresses of the model up to letter case, spelled out
\* letter by letter rather than through toLowerCase
CaseClass(s) ==
  CASE s \in {"a@x.com", "A@X.com"} -> "a@x.com class"
    [] s \in {"b@x.com", "B@X.com"} -> "b@x.com class"
    [] OTHER -> s

SameIgnoringCase(s, t) == CaseClass(s) = CaseClass(t)

\* the stored users whose address is e up to letter case
UsersLike(e) == {i \in DOMAIN Users : SameIgnoringCase(Get(Users[i], "email").v, e)}

\* C1: no two stored users have addresses equal up to letter case, and a
\* signup carrying every required field whose address equals a stored one up
\* to letter case is answered 409 and leaves every document as it was.
C1_UniqueEmails ==
  /\ \A i, j \in DOMAIN Users :
       i # j => ~SameIgnoringCase(Get(Users[i], "email").v, Get(Users[j], "email").v)
  /\ \A rq \in SignupReqs :
       (/\ \A k \in {"name", "email", "phone", "password", "role"} :
             IsStr(Get(rq.body, k)) /\ Get(rq.body, k).v # ""
        /\ UsersLike(Get(rq.body, "email").v) # {})
       => LET o == PostSignup(docs, now, rq)
          IN o.status = 409 /\ o.fs = docs

\* a signup was just refused as a duplicate of a user stored under another
\* spelling of the address
C1_Witness ==
  /\ req.op = "POST /api/auth/signup"
  /\ resp.status = 409
  /\ \E i \in UsersLike(req.email) : Get(Users[i], "email").v # req.email

\* the logins of the model that name stored user i by an address equal to the
\* stored one up to letter case, with the password and role given at signup
LoginsFor(i) ==
  {rq \in LoginReqs :
     /\ IsStr(Get(rq.body, "email"))
     /\ SameIgnoringCase(Get(rq.body, "email").v, Get(Users[i], "email").v)
     /\ Get(rq.body, "password") = Get(Users[i], "password")
     /\ Get(rq.body, "role") = Get(Users[i], "role")}

\* C2 as the specification states it: right after a successful signup, a
\* login with the same password and role and the address in any letter case
\* returns the success response.
C2_LoginAfterSignup ==
  (req.op = "POST /api/auth/signup" /\ resp.status = 201)
  => \A rq \in LoginsFor(Len(Users)) : PostLogin(docs, now, rq).status = 200

\* C2: a login with the password and role given at signup and the address in
\* any letter case is matched to the account (never 401); it is answered 403
\* while the account is pending or rejected, which every account is from its
\* signup until an administrator approves it, and 200 with the stored user
\* once the account is approved; it changes no document.
C2_LoginMatchesAnyCase ==
  /\ \A i \in DOMAIN Users :
       \A rq \in LoginsFor(i) :
         LET o == PostLogin(docs, now, rq)
             st == Get(Users[i], "status")
         IN /\ st \in {JStr("pending"), JStr("approved"), JStr("rejected")}
            /\ o.status = IF st = JStr("approved") THEN 200 ELSE 403
            /\ o.status = 200 =>
                 o.body.c["user"].c["email"] = JSONstringify(Get(Users[i], "email"))
            /\ o.fs = docs
  /\ (req.op = "POST /api/auth/signup" /\ resp.status = 201)
     => Get(Users[Len(Users)], "status") = JStr("pending")

\* a login just succeeded with the address typed in another letter case than
\* the one stored
C2_Witness ==
  /\ req.op = "POST /api/auth/login"
  /\ resp.status = 200
  /\ \E i \in UsersLike(req.email) : Get(Users[i], "email").v # req.email

\* the courses of stored user i
CoursesOf(fs, i) == OrElse(Get(Coll(fs, "users.json").v[i], "courses"), EmptyArr).v

\* the entries of a course list that carry the name n
Named(courses, n) == {c \in DOMAIN courses : Get(courses[c], "name") = n}

\* the course requests of the model that name a course stored user i has
KnownCourse(reqs, i) ==
  {rq \in reqs :
     /\ FindUser(JArr(Users), toLowerCase(rq.email)) = i
     /\ Named(CoursesOf(docs, i), Get(rq.body, "name")) # {}}

\* what a progress update stores for the value p it is sent
StoredProgress(p) ==
  CASE p.t = "number" -> p
    [] p = JStr("75") -> JNum(75)
    [] p = JUndef -> JNum(0)
    [] p = JStr("abc") -> JNull

\* C3 as the specification states it: a progress update to value p for a
\* course the student has leaves exactly one entry of that name, with
\* progress p.
C3_ProgressIsP ==
  \A i \in DOMAIN Users :
    \A rq \in KnownCourse(ProgressReqs, i) :
      LET after == CoursesOf(PatchCourse(docs, now, rq).fs, i)
      IN \E c \in DOMAIN after :
           /\ Named(after, Get(rq.body, "name")) = {c}
           /\ Get(after[c], "progress") = Get(rq.body, "progress")

\* C3: no student's course list holds two entries of one name; adding a
\* course the student already has is answered 409 and changes no document;
\* a progress update for a course the student has leaves exactly one entry
\* of that name, whose progress is p when p is a number and otherwise
\* Number(p || 0) as JSON stores it (0 for a missing p, 75 for "75", null for
\* a text that is no number).
C3_UniqueCourses ==
  \A i \in DOMAIN Users :
    /\ \A c, d \in DOMAIN CoursesOf(docs, i) :
         c # d => Get(CoursesOf(docs, i)[c], "name") # Get(CoursesOf(docs, i)[d], "name")
    /\ \A rq \in KnownCourse(CourseReqs, i) :
         LET o == PostCourse(docs, now, rq)
         IN o.status = 409 /\ o.fs = docs
    /\ \A rq \in KnownCourse(ProgressReqs, i) :
         LET o == PatchCourse(docs, now, rq)
             after == CoursesOf(o.fs, i)
         IN /\ o.status = 200
            /\ Len(after) = Len(CoursesOf(docs, i))
            /\ \E c \in DOMAIN after :
                 /\ Named(after, Get(rq.body, "name")) = {c}
                 /\ Get(after[c], "progress") = StoredProgress(Get(rq.body, "progress"))

\* a progress update to 75 was just applied to a course of the student named
C3_Witness ==
  /\ req.op = "PATCH /api/students/:email/courses"
  /\ resp.status = 200
  /\ \E i \in UsersLike(req.email) :
       \E c \in DOMAIN CoursesOf(docs, i) :
         /\ Get(CoursesOf(docs, i)[c], "name") = JStr("Math")
         /\ Get(CoursesOf(docs, i)[c], "progress") = JNum(75)
         /\ Named(CoursesOf(docs, i), JStr("Math")) = {c}

----------------------------------------------------------------------------
(* Properties of the whole server, checked under Spec *)

\* the collections a route appends whole records to
Appended == {"users.json", "courseVideos.json", "tests.json",
             "testResults.json", "questions.json"}

\* C4: requests are handled one at a time, each loading, changing and saving
\* its collection in one step, so in every order of the requests no write is
\* lost: each collection holds exactly as many records as creations were
\* answered 201 for it.
C4_NoLostWrite == \A f \in Appended : Size(Coll(docs, f)) = acked[f]

\* two videos were added and both are stored
C4_Witness ==
  /\ acked["courseVideos.json"] = 2
  /\ req.op = "POST /api/videos"
  /\ resp.status = 201
  /\ Len(Coll(docs, "courseVideos.json").v) = 2

\* every record of the collection old is still in new: a user at its
\* position under its address, a profile under its key, any other record
\* unchanged at its position
Kept(fileName, old, new) ==
  IF fileName = "profiles.json"
  THEN DOMAIN old.v \subseteq DOMAIN new.v
  ELSE /\ Len(new.v) >= Len(old.v)
       /\ \A i \in DOMAIN old.v :
            IF fileName = "users.json"
            THEN Get(new.v[i], "email") = Get(old.v[i], "email")
            ELSE new.v[i] = old.v[i]

\* C9: no step removes a record: every record of every collection is still
\* there after the step, under its key or at its position, and no collection
\* gets smaller.
C9_NothingDeleted ==
  [][\A f \in Files :
       \/ docs'[f] = docs[f]
       \/ /\ Kept(f, Coll(docs, f), Coll(docs', f))
          /\ Size(Coll(docs', f)) >= Size(Coll(docs, f))]_vars

\* a status change was just applied while two users are stored
C9_Witness ==
  /\ req.op = "PATCH /api/admin/users/:email/status"
  /\ resp.status = 200
  /\ Len(Users) = 2

GetRoutes == {op \in Routes : SubSeq(op, 1, 3) = "GET"}

\* C10: in every state, every request that is answered with an error status,
\* and every GET request, leaves every document as it was.
C10_RefusalsWriteNothing ==
  \A op \in Routes :
    \A rq \in RequestsOf(op) :
      LET o == Handle(docs, now, op, rq)
      IN (o.status >= 400 \/ op \in GetRoutes) => o.fs = docs

\* a course the student already has was just refused
C10_Witness ==
  /\ req.op = "POST /api/students/:email/courses"
  /\ resp.status = 409
  /\ \E i \in UsersLike(req.email) : Len(CoursesOf(docs, i)) > 0

----------------------------------------------------------------------------
(* Properties of the unparseable document, checked under SpecDegraded *)

\* the files with every unparseable document replaced by its fallback
Repaired(fs) ==
  [f \in Files |-> IF fs[f] = Corrupt THEN JsonDoc(JSONstringify(Fallback(f)))
                   ELSE fs[f]]

\* C6: loadJson on an unparseable document returns the fallback, whatever
\* the fallback, and changes no document; every request is answered, and
\* leaves every collection, as it would with the fallback stored in place of
\* the unparseable document.
C6_CorruptIsFallback ==
  /\ \A f \in Files :
       docs[f] = Corrupt =>
         \A fb \in Fallbacks : loadJson(docs, f, fb) = [ret |-> fb, fs |-> docs]
  /\ \A op \in Routes :
       \A rq \in RequestsOf(op) :
         LET o == Handle(docs, now, op, rq)
             r == Handle(Repaired(docs), now, op, rq)
         IN /\ o.status = r.status
            /\ o.body = r.body
            /\ Repaired(o.fs) = r.fs

\* the users were just listed, as none, from an unparseable users.json
C6_Witness ==
  /\ docs["users.json"] = Corrupt
  /\ req.op = "GET /api/admin/users"
  /\ resp = [status |-> 200, body |-> JSONstringify(EmptyArr)]

----------------------------------------------------------------------------
(* Properties of loadJson and saveJson, checked under SpecStore *)

RECURSIVE IsJson(_)
\* a JSON value: no undefined and no NaN anywhere in it
IsJson(x) ==
  CASE x.t \in {"array", "object"} -> \A k \in DOMAIN x.v : IsJson(x.v[k])
    [] x.t \in {"undefined", "NaN"} -> FALSE
    [] OTHER -> TRUE

\* C5: a loadJson of a document that does not exist returns the fallback it
\* was given and changes nothing: the document still does not exist and
\* every other document is as it was.
C5_AbsentLoad ==
  [][(call'.fn = "loadJson" /\ ~existsSync(docs, call'.fileName))
       => (ret' = call'.arg /\ docs' = docs)]_vars

\* a load of a missing document has just returned its fallback
C5_Witness ==
  /\ call.fn = "loadJson"
  /\ docs[call.fileName] = Absent
  /\ ret = call.arg

\* C7: a saveJson of a JSON value v followed at once by a loadJson of the
\* same name returns v, whatever the fallback and whatever the document
\* held before the save.
C7_RoundTrip ==
  [][(/\ call.fn = "saveJson"
      /\ IsJson(call.arg)
      /\ call'.fn = "loadJson"
      /\ call'.fileName = call.fileName)
       => ret' = call.arg]_vars

\* a load has just returned a non-empty value other than its fallback, from
\* a document that only a save can have written
C7_Witness ==
  /\ call.fn = "loadJson"
  /\ docs[call.fileName].kind = "json"
  /\ IsJson(ret)
  /\ ret.t \in {"array", "object"}
  /\ ret # call.arg
  /\ ret.v # <<>>

----------------------------------------------------------------------------
(* Properties of the question listing, checked under SpecQuestions *)

\* the instant a stored time stamp denotes
Instant(x) == CHOOSE n \in 0 .. MaxClock : x = JStr(toISOString(n))

\* b holds the elements of a, each as often as a does
IsPermutation(a, b) ==
  /\ Len(a) = Len(b)
  /\ \E p \in [DOMAIN a -> DOMAIN a] :
       /\ \A i, j \in DOMAIN a : i # j => p[i] # p[j]
       /\ \A i \in DOMAIN a : b[p[i]] = a[i]

\* C8: GET /api/questions without a course filter answers with all stored
\* questions, each once, newest first: no record is followed by one created
\* later.
C8_NewestFirst ==
  LET o == GetQuestions(docs, now, Rq("", JUndef, EmptyObj))
      list == JSONparse(o.body).v
  IN /\ o.status = 200
     /\ IsPermutation(Coll(docs, "questions.json").v, list)
     /\ \A i \in 1 .. Len(list) - 1 :
          Instant(Get(list[i], "createdAt")) >= Instant(Get(list[i + 1], "createdAt"))

\* an unfiltered listing (it holds questions of two courses) was just
\* answered in another order than the stored one
C8_Witness ==
  /\ req.op = "GET /api/questions"
  /\ resp.status = 200
  /\ LET list == JSONparse(resp.body).v
     IN /\ Len(list) = 2
        /\ Get(list[1], "course") # Get(list[2], "course")
        /\ Instant(Get(list[1], "createdAt")) > Instant(Get(list[2], "createdAt"))
        /\ list # Coll(docs, "questions.json").v

====
